---- MODULE Spec2Model ----
(***************************************************************************)
(* Verification model of spox: the limit-order fill progression            *)
(* (spox/core/orders.py), the deadline-bounded spread execution loop that  *)
(* drives it, and the session-aware market data type manager               *)
(* (spox/core/market_data.py).                                             *)
(*                                                                         *)
(* Prices are integers (ticks), times are integers (seconds for the order  *)
(* clock).  A coroutine runs without interruption between two awaits, so   *)
(* every action is the code between two suspension points.                 *)
(***************************************************************************)
EXTENDS Integers, Sequences, FiniteSets, TLC

(***************************************************************************)
(* Bounds of the model.                                                    *)
(***************************************************************************)
MaxAttempts == 3
MaxDuration == 4

(***************************************************************************)
(* Input domains.                                                          *)
(***************************************************************************)
Limits == {10, 11}
Adjustments == {0, 1, 2}
Waits == {0, 1}
RoundTrips == {1, 2}

NoProgression == [attempts |-> -99, wait |-> 0, adjustment |-> 0, given |-> FALSE]

\* FillProgression(attempts, wait, adjustment); attempts may be <= 0.
FillProgression ==
    [attempts : -1 .. MaxAttempts, wait : Waits, adjustment : Adjustments, given : {TRUE}]

Progressions == FillProgression \cup {NoProgression}

\* ib_async OrderStatus values an order can report while the call runs.
Filled == "Filled"
Cancelled == "Cancelled"
PendingSubmit == "PendingSubmit"
Statuses == {PendingSubmit, "Submitted", Filled, Cancelled}
DoneStates == {Filled, Cancelled}

VARIABLES
    pc,           \* position of limit_buy: idle, loop_sleep, final_sleep, done
    progression,  \* the progression argument of the running call
    attempts,     \* local variable attempts
    orderId,      \* identity of the LimitOrder object of the call
    lmtPrice,     \* order.lmtPrice
    status,       \* trade.orderStatus.status, updated by the venue
    result,       \* pending, trade or none
    limit0,       \* the limit argument of the call
    placements,   \* placeOrder calls of the call: <<[orderId, lmtPrice]>>
    cancels,      \* cancelOrder calls of the call: <<orderId>>
    waits,        \* number of asyncio.sleep awaits of the call so far
    observed,     \* statuses read at the status checks of the call
    now,          \* clock of the event loop
    lpc,          \* position of SpreadExecutionLoop.buy
    deadline,     \* absolute deadline of the execution loop
    loopProg,     \* progression handed to every fill attempt of the loop
    checkedAt,    \* time of the last deadline check
    loopResult,   \* pending, trade or none
    clock,        \* index of the current instant in Instants
    conId,        \* contract.conId of every contract object (0: unqualified)
    prefer_liquid_hours,
    cache_key,    \* MarketDataTypeManager._cache_key
    cache,        \* MarketDataTypeManager._cache
    current_md_type,  \* MarketDataTypeManager._current_md_type
    task,         \* per call of ensure_md_type_for_now: position and locals
    calls,        \* number of calls started
    requests,     \* modes sent with ib.reqMarketDataType, in order
    fetches,      \* number of ib.reqContractDetailsAsync requests
    parses,       \* number of _parse_hours evaluations
    sc,           \* a call of _get_strike_candidates: arguments and result
    sel,          \* a delta selection: quoted candidates and outcome
    wg,           \* a call of wait_for_greeks: position, clock, result
    bld,          \* a call of PutVerticalBuilder.build: position and locals
    ph,           \* a call of _parse_hours: arguments and result
    so,           \* a call of SessionSchedule.is_open: schedule, time, result
    hs,           \* a HistorySpec.duration_str evaluation: fields and result
    cn            \* a call of StrategyBase.connect: position, connection

orderVars == <<pc, progression, attempts, orderId, lmtPrice, status, result,
               limit0, placements, cancels, waits, observed>>
loopVars == <<lpc, deadline, loopProg, checkedAt, loopResult>>
mdVars == <<clock, conId, prefer_liquid_hours, cache_key, cache,
           current_md_type, task, calls, requests, fetches, parses>>
auxVars == <<sc, sel, wg, bld, ph, so, hs, cn>>
vars == <<orderVars, now, loopVars, mdVars, auxVars>>

total_seconds(t) == t

\* self.ib.placeOrder(contract, order) with the order's current price
placeOrder(oid, price) == Append(placements, [orderId |-> oid, lmtPrice |-> price])

HasProgressionIgnoresAttempts(prog) == prog.given

\* progression and progression.attempts > 0
HasProgression(prog) == prog.given /\ prog.attempts > 0

(***************************************************************************)
(* limit_buy up to its first await (or its return when there is no         *)
(* progression): create the order, place it, enter the loop.               *)
(***************************************************************************)
LimitBuyCall(limit, prog) ==
    /\ pc \in {"idle", "done"}
    /\ orderId' = orderId + 1
    /\ limit0' = limit
    /\ lmtPrice' = limit
    /\ progression' = prog
    /\ status' = PendingSubmit
    /\ placements' = <<[orderId |-> orderId + 1, lmtPrice |-> limit]>>
    /\ cancels' = <<>>
    /\ waits' = 0
    /\ observed' = <<>>
    /\ IF HasProgression(prog)
       THEN /\ attempts' = prog.attempts
            /\ pc' = "loop_sleep"
            /\ result' = "pending"
       ELSE /\ attempts' = 0
            /\ pc' = "done"
            /\ result' = "trade"

WakeLoopRaisesPrice ==
    /\ pc = "loop_sleep"
    /\ now' = now + total_seconds(progression.wait)
    /\ waits' = waits + 1
    /\ observed' = Append(observed, status)
    /\ IF status = Filled
       THEN /\ result' = "trade"
            /\ pc' = "done"
            /\ UNCHANGED <<lmtPrice, placements, attempts>>
       ELSE IF status = Cancelled
       THEN /\ result' = "none"
            /\ pc' = "done"
            /\ UNCHANGED <<lmtPrice, placements, attempts>>
       ELSE /\ lmtPrice' = lmtPrice + progression.adjustment
            /\ placements' = placeOrder(orderId, lmtPrice + progression.adjustment)
            /\ attempts' = attempts - 1
            /\ pc' = IF attempts - 1 > 0 THEN "loop_sleep" ELSE "final_sleep"
            /\ UNCHANGED result
    /\ UNCHANGED <<progression, orderId, status, limit0, cancels, loopVars, mdVars, auxVars>>

WakeLoopIgnoresFilled ==
    /\ pc = "loop_sleep"
    /\ now' = now + total_seconds(progression.wait)
    /\ waits' = waits + 1
    /\ observed' = Append(observed, status)
    /\ IF status = Cancelled
       THEN /\ result' = "none"
            /\ pc' = "done"
            /\ UNCHANGED <<lmtPrice, placements, attempts>>
       ELSE /\ lmtPrice' = lmtPrice - progression.adjustment
            /\ placements' = placeOrder(orderId, lmtPrice - progression.adjustment)
            /\ attempts' = attempts - 1
            /\ pc' = IF attempts - 1 > 0 THEN "loop_sleep" ELSE "final_sleep"
            /\ UNCHANGED result
    /\ UNCHANGED <<progression, orderId, status, limit0, cancels, loopVars, mdVars, auxVars>>

WakeLoopIgnoresCancelled ==
    /\ pc = "loop_sleep"
    /\ now' = now + total_seconds(progression.wait)
    /\ waits' = waits + 1
    /\ observed' = Append(observed, status)
    /\ IF status = Filled
       THEN /\ result' = "trade"
            /\ pc' = "done"
            /\ UNCHANGED <<lmtPrice, placements, attempts>>
       ELSE /\ lmtPrice' = lmtPrice - progression.adjustment
            /\ placements' = placeOrder(orderId, lmtPrice - progression.adjustment)
            /\ attempts' = attempts - 1
            /\ pc' = IF attempts - 1 > 0 THEN "loop_sleep" ELSE "final_sleep"
            /\ UNCHANGED result
    /\ UNCHANGED <<progression, orderId, status, limit0, cancels, loopVars, mdVars, auxVars>>

WakeLoopNoDecrement ==
    /\ pc = "loop_sleep"
    /\ now' = now + total_seconds(progression.wait)
    /\ waits' = waits + 1
    /\ observed' = Append(observed, status)
    /\ IF status = Filled
       THEN /\ result' = "trade"
            /\ pc' = "done"
            /\ UNCHANGED <<lmtPrice, placements, attempts>>
       ELSE IF status = Cancelled
       THEN /\ result' = "none"
            /\ pc' = "done"
            /\ UNCHANGED <<lmtPrice, placements, attempts>>
       ELSE /\ lmtPrice' = lmtPrice - progression.adjustment
            /\ placements' = placeOrder(orderId, lmtPrice - progression.adjustment)
            /\ attempts' = attempts
            /\ pc' = "loop_sleep"
            /\ UNCHANGED result
    /\ UNCHANGED <<progression, orderId, status, limit0, cancels, loopVars, mdVars, auxVars>>

WakeLoopGivesUpUnfilled ==
    /\ pc = "loop_sleep"
    /\ now' = now + total_seconds(progression.wait)
    /\ waits' = waits + 1
    /\ observed' = Append(observed, status)
    /\ IF status = Filled
       THEN /\ result' = "trade"
            /\ pc' = "done"
            /\ UNCHANGED <<lmtPrice, placements, attempts>>
       ELSE /\ result' = "none"
            /\ pc' = "done"
            /\ UNCHANGED <<lmtPrice, placements, attempts>>
    /\ UNCHANGED <<progression, orderId, status, limit0, cancels, loopVars, mdVars, auxVars>>

WakeLoopPlacesNewOrder ==
    /\ pc = "loop_sleep"
    /\ now' = now + total_seconds(progression.wait)
    /\ waits' = waits + 1
    /\ observed' = Append(observed, status)
    /\ IF status = Filled
       THEN /\ result' = "trade"
            /\ pc' = "done"
            /\ UNCHANGED <<lmtPrice, placements, attempts>>
       ELSE IF status = Cancelled
       THEN /\ result' = "none"
            /\ pc' = "done"
            /\ UNCHANGED <<lmtPrice, placements, attempts>>
       ELSE /\ lmtPrice' = lmtPrice - progression.adjustment
            /\ placements' = placeOrder(orderId + Len(placements),
                                        lmtPrice - progression.adjustment)
            /\ attempts' = attempts - 1
            /\ pc' = IF attempts - 1 > 0 THEN "loop_sleep" ELSE "final_sleep"
            /\ UNCHANGED result
    /\ UNCHANGED <<progression, orderId, status, limit0, cancels, loopVars, mdVars, auxVars>>

\* The body of `while attempts > 0` after the sleep returns.
WakeLoop ==
    /\ pc = "loop_sleep"
    /\ now' = now + total_seconds(progression.wait)
    /\ waits' = waits + 1
    /\ observed' = Append(observed, status)
    /\ IF status = Filled
       THEN /\ result' = "trade"
            /\ pc' = "done"
            /\ UNCHANGED <<lmtPrice, placements, attempts>>
       ELSE IF status = Cancelled
       THEN /\ result' = "none"
            /\ pc' = "done"
            /\ UNCHANGED <<lmtPrice, placements, attempts>>
       ELSE /\ lmtPrice' = lmtPrice - progression.adjustment
            /\ placements' = placeOrder(orderId, lmtPrice - progression.adjustment)
            /\ attempts' = attempts - 1
            /\ pc' = IF attempts - 1 > 0 THEN "loop_sleep" ELSE "final_sleep"
            /\ UNCHANGED result
    /\ UNCHANGED <<progression, orderId, status, limit0, cancels, loopVars, mdVars, auxVars>>

WakeFinalNeverCancels ==
    /\ pc = "final_sleep"
    /\ now' = now + total_seconds(progression.wait)
    /\ waits' = waits + 1
    /\ observed' = Append(observed, status)
    /\ IF status = Filled
       THEN /\ result' = "trade"
            /\ UNCHANGED cancels
       ELSE /\ UNCHANGED cancels
            /\ result' = "none"
    /\ pc' = "done"
    /\ UNCHANGED <<progression, attempts, orderId, lmtPrice, status, limit0,
                   placements, loopVars, mdVars, auxVars>>

\* After the loop: one more sleep, then Filled returns the trade and every
\* other status cancels the order.
WakeFinal ==
    /\ pc = "final_sleep"
    /\ now' = now + total_seconds(progression.wait)
    /\ waits' = waits + 1
    /\ observed' = Append(observed, status)
    /\ IF status = Filled
       THEN /\ result' = "trade"
            /\ UNCHANGED cancels
       ELSE /\ cancels' = Append(cancels, orderId)
            /\ result' = "none"
    /\ pc' = "done"
    /\ UNCHANGED <<progression, attempts, orderId, lmtPrice, status, limit0,
                   placements, loopVars, mdVars, auxVars>>

\* The venue reports a new status of the working order.
StatusUpdate ==
    /\ pc # "idle"
    /\ status \notin DoneStates
    /\ \E s \in Statuses \ {status} : status' = s
    /\ UNCHANGED <<pc, progression, attempts, orderId, lmtPrice, result, limit0,
                   placements, cancels, waits, observed, now, loopVars, mdVars, auxVars>>

\* A strategy task calls limit_buy directly.
DirectCall ==
    /\ lpc = "off"
    /\ pc = "idle"
    /\ \E limit \in Limits, prog \in Progressions : LimitBuyCall(limit, prog)
    /\ UNCHANGED <<now, loopVars, mdVars, auxVars>>

(***************************************************************************)
(* Market data type manager (spox/core/market_data.py).                    *)
(*                                                                         *)
(* Trading-hours text is a sequence of characters: the digits 0..9 and the *)
(* separators below; the word CLOSED is one symbol.  A datetime is the     *)
(* tuple <<year, month, day, hour, minute>> of its wall clock in its zone. *)
(***************************************************************************)
MaxCalls == 3

\* None of Optional[tuple], Optional[SessionSchedule] and Optional[int]
NoKey == <<>>
NoSchedule == [none |-> TRUE]
NoMode == 0
SEMI == -1
COLON == -2
COMMA == -3
DASH == -4
CLOSED == -5

\* two callers of the manager that may overlap at the awaits
Tasks == {"t1", "t2"}
Contracts == {"SPX", "ESTX50"}

\* class MarketDataType
LIVE == 1
FROZEN == 2
DELAYED == 3
DELAYED_FROZEN == 4

\* (open_type, closed_type) arguments of a call; the first is the default
ModePairs == {<<LIVE, FROZEN>>, <<DELAYED, FROZEN>>}

\* zero-padded decimal formatting, as %Y / %m / %d / HHMM produce it
RECURSIVE Digits(_, _)
Digits(n, width) ==
    IF width = 0 THEN <<>> ELSE Append(Digits(n \div 10, width - 1), n % 10)

\* int(s) of a digit string
RECURSIVE int(_)
int(ds) ==
    IF ds = <<>> THEN 0 ELSE 10 * int(SubSeq(ds, 1, Len(ds) - 1)) + ds[Len(ds)]

\* s[a:b] of Python, 0-based, end exclusive
Slice(s, a, b) == SubSeq(s, a + 1, b)

\* Index of the first sep in s, 0 if there is none
RECURSIVE Find(_, _, _)
Find(s, sep, i) ==
    IF i > Len(s) THEN 0
    ELSE IF s[i] = sep THEN i
    ELSE Find(s, sep, i + 1)

\* s.split(sep)
RECURSIVE Split(_, _)
Split(s, sep) ==
    LET i == Find(s, sep, 1)
    IN  IF i = 0 THEN <<s>>
        ELSE <<SubSeq(s, 1, i - 1)>> \o Split(SubSeq(s, i + 1, Len(s)), sep)

\* s.split(sep, 1) unpacked into two names (the text holds the separator)
SplitOnce(s, sep) ==
    LET i == Find(s, sep, 1)
    IN  <<SubSeq(s, 1, i - 1), SubSeq(s, i + 1, Len(s))>>

datetimeOnTheHour(y, mo, d, h, mi) == <<y, mo, d, h, 0>>

\* datetime(year, month, day, hour, minute, tzinfo=tz)
datetime(y, mo, d, h, mi) == <<y, mo, d, h, mi>>

\* a <= b for two datetimes of the same zone
RECURSIVE LexLE(_, _, _)
LexLE(a, b, i) ==
    IF i > Len(a) THEN TRUE
    ELSE IF a[i] < b[i] THEN TRUE
    ELSE IF a[i] > b[i] THEN FALSE
    ELSE LexLE(a, b, i + 1)

DtLE(a, b) == LexLE(a, b, 1)

\* The sessions of one day segment, lines 98-112
RECURSIVE ParseSessions(_, _)
ParseSessions(sessions, date_part) ==
    IF sessions = <<>> THEN <<>>
    ELSE LET se == SplitOnce(Head(sessions), DASH)
             start_hm == se[1]
             end_hm == se[2]
             start_dt == datetime(int(Slice(date_part, 0, 4)), int(Slice(date_part, 4, 6)),
                                  int(Slice(date_part, 6, 8)),
                                  int(Slice(start_hm, 0, 2)), int(Slice(start_hm, 2, 4)))
             end_dt == datetime(int(Slice(date_part, 0, 4)), int(Slice(date_part, 4, 6)),
                                int(Slice(date_part, 6, 8)),
                                int(Slice(end_hm, 0, 2)), int(Slice(end_hm, 2, 4)))
         IN  <<<<start_dt, end_dt>>>> \o ParseSessions(Tail(sessions), date_part)

OtherDayNever(date_part, day_yyyymmdd) == FALSE

\* if date_part != day_yyyymmdd: continue
OtherDay(date_part, day_yyyymmdd) == date_part # day_yyyymmdd

ClosedKeepsEarlierIntervals(intervals) == intervals

\* if sess_part == "CLOSED": return []
ClosedResult(intervals) == <<>>

\* The loop over the day segments; a CLOSED segment of the day returns []
RECURSIVE ParseSegments(_, _, _)
ParseSegments(segs, day_yyyymmdd, intervals) ==
    IF segs = <<>> THEN intervals
    ELSE LET dayseg == Head(segs)
         IN  IF dayseg = <<>> THEN ParseSegments(Tail(segs), day_yyyymmdd, intervals)
             ELSE LET ds == SplitOnce(dayseg, COLON)
                      date_part == ds[1]
                      sess_part == ds[2]
                  IN  IF OtherDay(date_part, day_yyyymmdd)
                      THEN ParseSegments(Tail(segs), day_yyyymmdd, intervals)
                      ELSE IF sess_part = <<CLOSED>> THEN ClosedResult(intervals)
                      ELSE ParseSegments(Tail(segs), day_yyyymmdd,
                               intervals \o ParseSessions(Split(sess_part, COMMA), date_part))

_parse_hours(hours_str, day_yyyymmdd) ==
    ParseSegments(Split(hours_str, SEMI), day_yyyymmdd, <<>>)

(***************************************************************************)
(* The clock and the zones.  Instants are minutes since 2025-01-01 00:00   *)
(* UTC; all of them lie in January 2025.                                   *)
(***************************************************************************)
Instants == <<
    1 * 1440 + 14 * 60 + 30,   \* 2 Jan 14:30 UTC = 09:30 New York
    2 * 1440 + 2 * 60,         \* 3 Jan 02:00 UTC = 2 Jan 21:00 New York
    2 * 1440 + 8 * 60,         \* 3 Jan 08:00 UTC = 03:00 New York
    2 * 1440 + 17 * 60,        \* 3 Jan 17:00 UTC = 12:00 New York
    2 * 1440 + 17 * 60 + 30 >> \* 3 Jan 17:30 UTC = 12:30 New York

SelfTz == "America/New_York"

UtcOffset(tz) == IF tz = "America/New_York" THEN -300 ELSE 0

\* datetime.now(tz) at instant i
NowIn(tz, i) ==
    LET m == Instants[i] + UtcOffset(tz)
    IN  datetime(2025, 1, m \div 1440 + 1, (m % 1440) \div 60, m % 60)

\* dt.strftime("%Y%m%d")
strftime(dt) == Digits(dt[1], 4) \o Digits(dt[2], 2) \o Digits(dt[3], 2)

HHMM(n) == Digits(n, 4)
Day(n) == Digits(2025, 4) \o Digits(1, 2) \o Digits(n, 2)

\* What the venue reports for a contract: ContractDetails.timeZoneId,
\* liquidHours, tradingHours, and the conId qualification fills in.
VenueDetails ==
  [c \in Contracts |->
    IF c = "SPX"
    THEN [conId |-> 1, timeZoneId |-> "",
          liquidHours |->
              Day(2) \o <<COLON>> \o HHMM(930) \o <<DASH>> \o HHMM(1600) \o <<SEMI>> \o
              Day(3) \o <<COLON>> \o HHMM(930) \o <<DASH>> \o HHMM(1200) \o <<COMMA>> \o
                  HHMM(1300) \o <<DASH>> \o HHMM(1600),
          tradingHours |->
              Day(2) \o <<COLON>> \o HHMM(400) \o <<DASH>> \o HHMM(2000) \o <<SEMI>> \o
              Day(3) \o <<COLON, CLOSED>>]
    ELSE [conId |-> 2, timeZoneId |-> "Europe/London",
          liquidHours |->
              Day(2) \o <<COLON, CLOSED, SEMI>> \o
              Day(3) \o <<COLON>> \o HHMM(800) \o <<DASH>> \o HHMM(1630),
          tradingHours |-> <<>>]]

Details(c) == VenueDetails[c]

is_openBeforeEnd(sched, i) ==
    LET now_dt == NowIn(sched.tz, i)
    IN  \E k \in 1 .. Len(sched.intervals) :
            /\ DtLE(sched.intervals[k][1], now_dt)
            /\ DtLE(now_dt, sched.intervals[k][2])
            /\ now_dt # sched.intervals[k][2]

\* SessionSchedule.is_open at instant i
is_open(sched, i) ==
    LET now_dt == NowIn(sched.tz, i)
    IN  \E k \in 1 .. Len(sched.intervals) :
            DtLE(sched.intervals[k][1], now_dt) /\ DtLE(now_dt, sched.intervals[k][2])

IdleTask ==
    [pc |-> "idle", contract |-> "SPX", open_type |-> LIVE, closed_type |-> FROZEN,
     fetched |-> FALSE, hit |-> FALSE, ret |-> NoMode]

\* ensure_md_type_for_now(contract, open_type, closed_type) up to the first
\* await of _get_schedule: ib.qualifyContractsAsync(contract)
EnsureCall(t) ==
    /\ task[t].pc \in {"idle", "done", "failed"}
    /\ calls < MaxCalls
    /\ calls' = calls + 1
    /\ \E c \in Contracts, m \in ModePairs :
          task' = [task EXCEPT ![t] =
                      [IdleTask EXCEPT !.pc = "qualify", !.contract = c,
                                       !.open_type = m[1], !.closed_type = m[2]]]
    /\ UNCHANGED <<clock, conId, prefer_liquid_hours, cache_key, cache,
                   current_md_type, requests, fetches, parses>>

\* Qualification returns: the venue resolved the contract (conId filled in)
\* or did not (unknown or ambiguous: the contract is left as it was); the
\* contract details are requested next.
QualifyDone(t) ==
    /\ task[t].pc = "qualify"
    /\ \/ conId' = [conId EXCEPT ![task[t].contract] = Details(task[t].contract).conId]
       \/ conId' = conId
    /\ fetches' = fetches + 1
    /\ task' = [task EXCEPT ![t].pc = "details", ![t].fetched = TRUE]
    /\ UNCHANGED <<clock, prefer_liquid_hours, cache_key, cache, current_md_type,
                   calls, requests, parses>>

DetailsEmptyTreatedAsClosed(t) ==
    /\ task[t].pc = "details"
    /\ requests' = IF task[t].closed_type # current_md_type
                   THEN Append(requests, task[t].closed_type) ELSE requests
    /\ current_md_type' = task[t].closed_type
    /\ task' = [task EXCEPT ![t].pc = "failed"]
    /\ UNCHANGED <<clock, conId, prefer_liquid_hours, cache_key, cache,
                   calls, fetches, parses>>

\* The venue returns no details: raise ValueError("No contract details returned")
DetailsEmpty(t) ==
    /\ task[t].pc = "details"
    /\ task' = [task EXCEPT ![t].pc = "failed"]
    /\ UNCHANGED <<clock, conId, prefer_liquid_hours, cache_key, cache,
                   current_md_type, calls, requests, fetches, parses>>

\* The zone, the day and the cache key of _get_schedule, lines 64-67
ZoneOf(d) == IF d.timeZoneId # "" THEN d.timeZoneId ELSE SelfTz
TodayOf(d, i) == strftime(NowIn(ZoneOf(d), i))
CacheKeyOf(c, i) == <<conId[c], TodayOf(Details(c), i), prefer_liquid_hours>>

\* The schedule built from the details d at instant i, lines 72-75
BuildSchedule(d, i) ==
    LET hours_str == IF prefer_liquid_hours THEN d.liquidHours ELSE d.tradingHours
    IN  [tz |-> ZoneOf(d), intervals |-> _parse_hours(hours_str, TodayOf(d, i))]

EnsureFinishKeepsCurrent(t, sched, hit) ==
    LET desired == IF is_open(sched, clock) THEN task[t].open_type ELSE task[t].closed_type
    IN  /\ IF desired # current_md_type
           THEN /\ requests' = Append(requests, desired)
                /\ current_md_type' = current_md_type
           ELSE UNCHANGED <<requests, current_md_type>>
        /\ task' = [task EXCEPT ![t].pc = "done", ![t].ret = desired,
                                ![t].hit = hit]

EnsureFinishRecordsWithoutRequest(t, sched, hit) ==
    LET desired == IF is_open(sched, clock) THEN task[t].open_type ELSE task[t].closed_type
    IN  /\ IF desired # current_md_type
           THEN /\ requests' = requests
                /\ current_md_type' = desired
           ELSE UNCHANGED <<requests, current_md_type>>
        /\ task' = [task EXCEPT ![t].pc = "done", ![t].ret = desired,
                                ![t].hit = hit]

\* ensure_md_type_for_now after _get_schedule returned sched, lines 42-52
EnsureFinish(t, sched, hit) ==
    LET desired == IF is_open(sched, clock) THEN task[t].open_type ELSE task[t].closed_type
    IN  /\ IF desired # current_md_type
           THEN /\ requests' = Append(requests, desired)
                /\ current_md_type' = desired
           ELSE UNCHANGED <<requests, current_md_type>>
        /\ task' = [task EXCEPT ![t].pc = "done", ![t].ret = desired,
                                ![t].hit = hit]

CacheHitIgnoresDay(key) ==
    /\ cache_key # NoKey
    /\ cache_key[1] = key[1]
    /\ cache_key[3] = key[3]
    /\ cache # NoSchedule

\* self._cache_key == cache_key and self._cache is not None
CacheHit(key) == cache_key = key /\ cache # NoSchedule

\* The details arrive: the rest of _get_schedule and of
\* ensure_md_type_for_now runs without another await.
DetailsDone(t) ==
    /\ task[t].pc = "details"
    /\ LET c == task[t].contract
           d == Details(c)
           key == CacheKeyOf(c, clock)
       IN  IF CacheHit(key)
           THEN /\ UNCHANGED <<cache_key, cache, parses>>
                /\ EnsureFinish(t, cache, TRUE)
           ELSE /\ cache_key' = key
                /\ cache' = BuildSchedule(d, clock)
                /\ parses' = parses + 1
                /\ EnsureFinish(t, BuildSchedule(d, clock), FALSE)
    /\ UNCHANGED <<clock, conId, prefer_liquid_hours, calls, fetches>>

\* Time passes while the calls are suspended.
Tick ==
    /\ clock < Len(Instants)
    /\ clock' = clock + 1
    /\ UNCHANGED <<conId, prefer_liquid_hours, cache_key, cache, current_md_type,
                   task, calls, requests, fetches, parses>>


InitOrder ==
    /\ pc = "idle"
    /\ progression = NoProgression
    /\ attempts = 0
    /\ orderId = 0
    /\ lmtPrice = 0
    /\ status = PendingSubmit
    /\ result = "pending"
    /\ limit0 = 0
    /\ placements = <<>>
    /\ cancels = <<>>
    /\ waits = 0
    /\ observed = <<>>
    /\ now = 0

InitLoopOff ==
    /\ lpc = "off"
    /\ deadline = 0
    /\ loopProg = NoProgression
    /\ checkedAt = 0
    /\ loopResult = "pending"

\* MarketDataTypeManager.__init__
InitManager ==
    /\ cache_key = NoKey
    /\ cache = NoSchedule
    /\ current_md_type = NoMode

InitMDOff ==
    /\ InitManager
    /\ prefer_liquid_hours = TRUE
    /\ clock = 1
    /\ conId = [c \in Contracts |-> 0]
    /\ task = [t \in Tasks |-> IdleTask]
    /\ calls = 0
    /\ requests = <<>>
    /\ fetches = 0
    /\ parses = 0

Off == [pc |-> "off"]

InitAuxOff ==
    /\ sc = Off
    /\ sel = Off
    /\ wg = Off
    /\ bld = Off
    /\ ph = Off
    /\ so = Off
    /\ hs = Off
    /\ cn = Off

Init ==
    /\ InitOrder
    /\ InitLoopOff
    /\ InitMDOff
    /\ InitAuxOff

Next ==
    \/ DirectCall
    \/ WakeLoop
    \/ WakeFinal
    \/ StatusUpdate

Spec == Init /\ [][Next]_vars

\* The event loop resumes a sleeping coroutine when its timer fires.
FairSpec == Spec /\ WF_vars(WakeLoop) /\ WF_vars(WakeFinal)

(***************************************************************************)
(* SpreadExecutionLoop.buy(deadline_duration, progression): rebuild the    *)
(* spread and attempt a fill until a trade is returned or the deadline has *)
(* passed.  The deadline is read only at the top of an iteration.          *)
(***************************************************************************)
Durations == 1 .. MaxDuration

\* buy() up to the first deadline check: deadline = now + deadline_duration
LoopStart ==
    /\ lpc = "idle"
    /\ \E dur \in Durations, prog \in Progressions :
          /\ deadline' = now + dur
          /\ loopProg' = prog
    /\ lpc' = "top"
    /\ UNCHANGED <<orderVars, now, checkedAt, loopResult, mdVars, auxVars>>

LoopTopNoDeadlineCheck ==
    /\ lpc = "top"
    /\ checkedAt' = now
    /\ lpc' = "building"
    /\ UNCHANGED loopResult
    /\ UNCHANGED <<orderVars, now, deadline, loopProg, mdVars, auxVars>>

\* Top of an iteration: stop with none when the deadline has passed,
\* otherwise start rebuilding the spread.
LoopTop ==
    /\ lpc = "top"
    /\ checkedAt' = now
    /\ IF now >= deadline
       THEN /\ lpc' = "returned"
            /\ loopResult' = "none"
       ELSE /\ lpc' = "building"
            /\ UNCHANGED loopResult
    /\ UNCHANGED <<orderVars, now, deadline, loopProg, mdVars, auxVars>>

\* The spread build (spot, strikes, qualification, selection) completes.
LoopBuild ==
    /\ lpc = "building"
    /\ \E rt \in RoundTrips : now' = now + rt
    /\ lpc' = "quoting"
    /\ UNCHANGED <<orderVars, deadline, loopProg, checkedAt, loopResult, mdVars, auxVars>>

\* Fresh quotes of both legs arrive: net limit = ask(long) - bid(short),
\* the combo is assembled and handed to limit_buy.
LoopPlace ==
    /\ lpc = "quoting"
    /\ \E rt \in RoundTrips : now' = now + rt
    /\ \E limit \in Limits : LimitBuyCall(limit, loopProg)
    /\ lpc' = "filling"
    /\ UNCHANGED <<deadline, loopProg, checkedAt, loopResult, mdVars, auxVars>>

\* limit_buy has returned: a trade ends the loop, none loops again.
LoopAfter ==
    /\ lpc = "filling"
    /\ pc = "done"
    /\ IF result = "trade"
       THEN /\ lpc' = "returned"
            /\ loopResult' = "trade"
       ELSE /\ lpc' = "top"
            /\ UNCHANGED loopResult
    /\ UNCHANGED <<orderVars, now, deadline, loopProg, checkedAt, mdVars, auxVars>>

InitLoop ==
    /\ InitOrder
    /\ InitMDOff
    /\ InitAuxOff
    /\ lpc = "idle"
    /\ deadline = 0
    /\ loopProg = NoProgression
    /\ checkedAt = 0
    /\ loopResult = "pending"

NextLoop ==
    \/ LoopStart
    \/ LoopTop
    \/ LoopBuild
    \/ LoopPlace
    \/ LoopAfter
    \/ WakeLoop
    \/ WakeFinal
    \/ StatusUpdate

SpecLoop == InitLoop /\ [][NextLoop]_vars

InitMD ==
    /\ InitOrder
    /\ InitLoopOff
    /\ InitAuxOff
    /\ InitManager
    /\ prefer_liquid_hours \in BOOLEAN
    /\ clock = 1
    /\ conId = [c \in Contracts |-> 0]
    /\ task = [t \in Tasks |-> IdleTask]
    /\ calls = 0
    /\ requests = <<>>
    /\ fetches = 0
    /\ parses = 0

NextMD ==
    \/ \E t \in Tasks : EnsureCall(t) /\ UNCHANGED <<orderVars, now, loopVars, auxVars>>
    \/ \E t \in Tasks : QualifyDone(t) /\ UNCHANGED <<orderVars, now, loopVars, auxVars>>
    \/ \E t \in Tasks : DetailsEmpty(t) /\ UNCHANGED <<orderVars, now, loopVars, auxVars>>
    \/ \E t \in Tasks : DetailsDone(t) /\ UNCHANGED <<orderVars, now, loopVars, auxVars>>
    \/ Tick /\ UNCHANGED <<orderVars, now, loopVars, auxVars>>

SpecMD == InitMD /\ [][NextMD]_vars

(***************************************************************************)
(* Delta selection (OptionStrategy._select_strike_delta, and the same      *)
(* expression in PutVerticalBuilder.build).  Deltas are in hundredths,     *)
(* bids in ticks; a ticker without modelGreeks carries no delta.           *)
(***************************************************************************)
MaxCandidates == 3

Deltas == {-10, -18, -20}
Bids == {-1, 1, 2}
Targets == {-15, -18}

Ticker == [greeks : BOOLEAN, delta : Deltas, bid : Bids]

RECURSIVE SeqsUpTo(_, _)
SeqsUpTo(S, n) ==
    IF n = 0 THEN {<<>>}
    ELSE LET shorter == SeqsUpTo(S, n - 1)
         IN  shorter \cup {Append(q, x) : q \in {r \in shorter : Len(r) = n - 1}, x \in S}

abs(x) == IF x < 0 THEN -x ELSE x

SelectionKeyDistanceOnly(t, target_delta) == <<abs(t.delta - target_delta), 0>>

\* key=lambda t: (abs(t.modelGreeks.delta - self.spec.target_delta), -t.bid)
SelectionKey(t, target_delta) == <<abs(t.delta - target_delta), -t.bid>>

\* a < b for two tuples of numbers
TupleLess(a, b) ==
    IF a[1] # b[1] THEN a[1] < b[1]
    ELSE IF a[2] # b[2] THEN a[2] < b[2]
    ELSE FALSE

\* min(iterable, key=...): the first item no later item is smaller than
RECURSIVE MinFrom(_, _, _, _)
MinFrom(tickers, target_delta, best, i) ==
    IF i > Len(tickers) THEN best
    ELSE IF tickers[i].greeks
            /\ TupleLess(SelectionKey(tickers[i], target_delta),
                         SelectionKey(tickers[best], target_delta))
         THEN MinFrom(tickers, target_delta, i, i + 1)
         ELSE MinFrom(tickers, target_delta, best, i + 1)

\* Index of the first ticker with modelGreeks, 0 if there is none
RECURSIVE FirstWithGreeks(_, _)
FirstWithGreeks(tickers, i) ==
    IF i > Len(tickers) THEN 0
    ELSE IF tickers[i].greeks THEN i
    ELSE FirstWithGreeks(tickers, i + 1)

\* min((t for t in tickers if t.modelGreeks), key=...): the index of the
\* chosen ticker, 0 when min() raises ValueError on the empty sequence
SelectBest(tickers, target_delta) ==
    LET first == FirstWithGreeks(tickers, 1)
    IN  IF first = 0 THEN 0
        ELSE MinFrom(tickers, target_delta, first, first + 1)

\* The selection after the greeks wait: best = min(...); return best.contract
SelectStrikeDelta ==
    /\ sel.pc = "call"
    /\ LET best == SelectBest(sel.tickers, sel.target_delta)
       IN  sel' = [sel EXCEPT !.pc = IF best = 0 THEN "raised" ELSE "returned",
                              !.best = best]
    /\ UNCHANGED <<orderVars, now, loopVars, mdVars, sc, wg, bld, ph, so, hs, cn>>

InitSelect ==
    /\ InitOrder
    /\ InitLoopOff
    /\ InitMDOff
    /\ sel \in [pc : {"call"}, tickers : SeqsUpTo(Ticker, MaxCandidates),
                 target_delta : Targets, best : {0}]
    /\ sc = Off
    /\ wg = Off
    /\ bld = Off
    /\ ph = Off
    /\ so = Off
    /\ hs = Off
    /\ cn = Off

NextSelect == SelectStrikeDelta

SpecSelect == InitSelect /\ [][NextSelect]_vars

(***************************************************************************)
(* Strike candidates (OptionStrategy._get_strike_candidates).  Prices and  *)
(* increments are in ticks.                                                *)
(***************************************************************************)
MaxStrikes == 3

PUT == "P"
CALL == "C"
Rights == {PUT, CALL, "X"}
Starts == 95 .. 106
Incs == {1, 5}

\* range(n)
range(n) == 0 .. n - 1

PutStrikeUnaligned(start, inc, i) == start - i * inc

\* start - start % inc - i * inc
PutStrike(start, inc, i) == start - (start % inc) - i * inc

\* start + start % inc + i * inc
CallStrike(start, inc, i) == start + (start % inc) + i * inc

\* The returned list, element i of the comprehension at position i + 1
_get_strike_candidates(start, right, inc, strikes_down) ==
    IF right = PUT
    THEN [k \in 1 .. strikes_down |-> PutStrike(start, inc, k - 1)]
    ELSE IF right = CALL
    THEN [k \in 1 .. strikes_down |-> CallStrike(start, inc, k - 1)]
    ELSE <<>>

GetStrikeCandidates ==
    /\ sc.pc = "call"
    /\ sc' = [sc EXCEPT !.pc = "returned",
                        !.strikes = _get_strike_candidates(sc.start, sc.right,
                                                           sc.inc, sc.strikes_down)]
    /\ UNCHANGED <<orderVars, now, loopVars, mdVars, sel, wg, bld, ph, so, hs, cn>>

InitStrikes ==
    /\ InitOrder
    /\ InitLoopOff
    /\ InitMDOff
    /\ sc \in [pc : {"call"}, start : Starts, right : Rights, inc : Incs,
                strikes_down : 0 .. MaxStrikes, strikes : {<<>>}]
    /\ sel = Off
    /\ wg = Off
    /\ bld = Off
    /\ ph = Off
    /\ so = Off
    /\ hs = Off
    /\ cn = Off

NextStrikes == GetStrikeCandidates

SpecStrikes == InitStrikes /\ [][NextStrikes]_vars

(***************************************************************************)
(* Spread build (PutVerticalBuilder.build), one action per stretch of code *)
(* between two awaits.  A price is a record: none for Python's None, nan   *)
(* for a float not-a-number, otherwise v ticks.  The venue lists the       *)
(* strikes of chain; qualification gives a contract of the chain its       *)
(* conId and leaves 0 on any other.  The builder of the source is the put  *)
(* credit case; the side and the kind of the other three cases come from   *)
(* the strategy's build contract.                                          *)
(***************************************************************************)
CREDIT == "credit"
DEBIT == "debit"
Kinds == {CREDIT, DEBIT}
Sides == {PUT, CALL}
Widths == {5, 10}
BuildIncs == {5}
BuildTargets == {-15}
QuoteDeltas == {-10, -20}
QuoteBids == {1, 2}
Chains == {{85, 90, 95, 100, 105, 110, 115}, {95, 100, 105}}

None == [none |-> TRUE, nan |-> FALSE, v |-> 0]
nan == [none |-> FALSE, nan |-> TRUE, v |-> 0]
Num(x) == [none |-> FALSE, nan |-> FALSE, v |-> x]
Spots == {None, nan, Num(100), Num(102)}

NoContract == [strike |-> None, right |-> "", conId |-> 0]

\* Float arithmetic of the strike expression: not-a-number propagates
StrikeOf(spot, right, inc, i) ==
    IF spot.nan THEN nan
    ELSE Num(_get_strike_candidates(spot.v, right, inc, i + 1)[i + 1])

\* OptionFactory.make: an unqualified option contract
make(strike, right) == [strike |-> strike, right |-> right, conId |-> 0]

ConIdOf(strike, right) == (IF right = PUT THEN 1000 ELSE 2000) + strike

\* qualifyContractsAsync fills conId in place for contracts the venue
\* knows and leaves the others unchanged, without raising
qualify(c, chain) ==
    IF ~c.strike.nan /\ ~c.strike.none /\ c.strike.v \in chain
    THEN [c EXCEPT !.conId = ConIdOf(c.strike.v, c.right)]
    ELSE c

LongPutStrikeAbove(short_strike, width) == short_strike + width

\* strike=short_put.strike - self.spec.width
LongPutStrike(short_strike, width) == short_strike - width

LongStrike(right, kind, short_strike, width) ==
    IF right = PUT /\ kind = CREDIT THEN LongPutStrike(short_strike, width)
    ELSE IF right = PUT THEN short_strike + width
    ELSE IF kind = CREDIT THEN short_strike + width
    ELSE short_strike - width

BuildRest == <<orderVars, now, loopVars, mdVars, sc, sel, wg, ph, so, hs, cn>>

\* spot_ticker = await self.ib.reqTickersAsync(underlying)
BuildCall ==
    /\ bld.pc = "call"
    /\ bld' = [bld EXCEPT !.pc = "await_spot",
                          !.trace = Append(@, "reqTickers_underlying")]
    /\ UNCHANGED BuildRest

\* The quote arrives; without a spot the build logs and returns no legs,
\* otherwise it asks for the option parameters
SpotArrives ==
    /\ bld.pc = "await_spot"
    /\ \E spot \in Spots :
          IF spot = None
          THEN bld' = [bld EXCEPT !.pc = "returned", !.spot = spot,
                                  !.logged = TRUE, !.ret = "none"]
          ELSE bld' = [bld EXCEPT !.pc = "await_secdef", !.spot = spot,
                                  !.trace = Append(@, "reqSecDefOptParams")]
    /\ UNCHANGED BuildRest

SecDefArrivesQuotesFirst ==
    /\ bld.pc = "await_secdef"
    /\ LET strikes == [k \in 1 .. bld.strikes_down |->
                          StrikeOf(bld.spot, bld.right, bld.inc, k - 1)]
           contracts == [k \in 1 .. bld.strikes_down |-> make(strikes[k], bld.right)]
       IN  bld' = [bld EXCEPT !.pc = "await_qualify",
                              !.strikes = strikes,
                              !.generated = TRUE,
                              !.contracts = contracts,
                              !.trace = Append(@, "reqTickers_candidates")]
    /\ UNCHANGED BuildRest

\* Strikes and candidate contracts are made; qualification is requested
SecDefArrives ==
    /\ bld.pc = "await_secdef"
    /\ LET strikes == [k \in 1 .. bld.strikes_down |->
                          StrikeOf(bld.spot, bld.right, bld.inc, k - 1)]
           contracts == [k \in 1 .. bld.strikes_down |-> make(strikes[k], bld.right)]
       IN  bld' = [bld EXCEPT !.pc = "await_qualify",
                              !.strikes = strikes,
                              !.generated = TRUE,
                              !.contracts = contracts,
                              !.trace = Append(@, "qualify_candidates")]
    /\ UNCHANGED BuildRest

\* tickers = await self.ib.reqTickersAsync(*contracts)
CandidatesQualified ==
    /\ bld.pc = "await_qualify"
    /\ bld' = [bld EXCEPT !.pc = "await_quotes",
                          !.contracts = [k \in 1 .. Len(@) |-> qualify(@[k], bld.chain)],
                          !.trace = Append(@, "reqTickers_candidates")]
    /\ UNCHANGED BuildRest

\* await self.wait_for_greeks(tickers, timeout=3.0)
QuotesArrive ==
    /\ bld.pc = "await_quotes"
    /\ bld' = [bld EXCEPT !.pc = "await_greeks"]
    /\ UNCHANGED BuildRest

\* The tickers as the venue has filled them when the wait ends (model
\* greeks only for contracts it knows); the short leg is selected, the
\* long leg is made and its qualification is requested
GreeksWaitDone ==
    /\ bld.pc = "await_greeks"
    /\ \E tickers \in [1 .. Len(bld.contracts) -> Ticker] :
          /\ \A k \in 1 .. Len(bld.contracts) :
                 /\ tickers[k].greeks => bld.contracts[k].conId # 0
                 /\ tickers[k].delta \in QuoteDeltas
                 /\ tickers[k].bid \in QuoteBids
                 /\ ~tickers[k].greeks =>
                        /\ tickers[k].delta = -10
                        /\ tickers[k].bid = 1
          /\ LET best == SelectBest(tickers, bld.target_delta)
             IN  IF best = 0
                 THEN bld' = [bld EXCEPT !.pc = "raised", !.tickers = tickers]
                 ELSE LET short == bld.contracts[best]
                          long == make(Num(LongStrike(bld.right, bld.kind,
                                                      short.strike.v, bld.width)),
                                       bld.right)
                      IN  bld' = [bld EXCEPT !.pc = "await_qualify_long",
                                             !.tickers = tickers,
                                             !.short = short,
                                             !.long = long,
                                             !.trace = Append(@, "qualify_long")]
    /\ UNCHANGED BuildRest

\* return short_put, long_put
LongQualified ==
    /\ bld.pc = "await_qualify_long"
    /\ bld' = [bld EXCEPT !.pc = "returned",
                          !.long = qualify(@, bld.chain),
                          !.ret = "pair"]
    /\ UNCHANGED BuildRest

InitBuild ==
    /\ InitOrder
    /\ InitLoopOff
    /\ InitMDOff
    /\ bld \in [pc : {"call"}, right : Sides, kind : Kinds, width : Widths,
                 inc : BuildIncs, strikes_down : 0 .. MaxStrikes,
                 target_delta : BuildTargets, chain : Chains,
                 spot : {None}, strikes : {<<>>}, generated : {FALSE},
                 contracts : {<<>>}, tickers : {<<>>},
                 short : {NoContract}, long : {NoContract},
                 ret : {""}, logged : {FALSE}, trace : {<<>>}]
    /\ sc = Off
    /\ sel = Off
    /\ wg = Off
    /\ ph = Off
    /\ so = Off
    /\ hs = Off
    /\ cn = Off

NextBuild ==
    \/ BuildCall
    \/ SpotArrives
    \/ SecDefArrives
    \/ CandidatesQualified
    \/ QuotesArrive
    \/ GreeksWaitDone
    \/ LongQualified

SpecBuild == InitBuild /\ [][NextBuild]_vars

(***************************************************************************)
(* wait_for_greeks (OptionStrategy and PutVerticalBuilder have the same    *)
(* body).  Time is counted in poll intervals (0.05 s); a sleep lasts one   *)
(* interval or, when the event loop is busy, longer.  The venue fills the  *)
(* tickers' modelGreeks while the coroutine sleeps.                        *)
(***************************************************************************)
MaxTimeout == 3

Instruments == {1, 2}
Timeouts == 0 .. MaxTimeout
SleepTimes == {1, 2}

\* all(getattr(t, "modelGreeks", None) for t in tickers)
AllGreeks(tickers, greeks) == tickers \subseteq greeks

\* while loop.time() < deadline: if all(...): return True; await sleep
\* ... return False -- from the loop test to the next await or return
WaitLoop(w) ==
    IF w.time < w.deadline
    THEN IF AllGreeks(w.tickers, w.greeks)
         THEN [w EXCEPT !.pc = "returned", !.ret = TRUE,
                        !.polls = Append(@, <<w.time, TRUE>>)]
         ELSE [w EXCEPT !.pc = "sleeping",
                        !.polls = Append(@, <<w.time, FALSE>>)]
    ELSE [w EXCEPT !.pc = "returned", !.ret = FALSE]

\* deadline = loop.time() + timeout, then the loop up to its first await
WaitCall ==
    /\ wg.pc = "call"
    /\ wg' = WaitLoop([wg EXCEPT !.deadline = wg.time + wg.timeout])
    /\ UNCHANGED <<orderVars, now, loopVars, mdVars, sc, sel, bld, ph, so, hs, cn>>

\* asyncio.sleep(0.05) returns, then the loop up to its next await
WaitWake ==
    /\ wg.pc = "sleeping"
    /\ \E dt \in SleepTimes :
          wg' = WaitLoop([wg EXCEPT !.time = @ + dt, !.sleeps = @ + 1])
    /\ UNCHANGED <<orderVars, now, loopVars, mdVars, sc, sel, bld, ph, so, hs, cn>>

\* The venue fills the model greeks of one ticker during a sleep
GreeksArrive ==
    /\ wg.pc = "sleeping"
    /\ \E t \in wg.tickers \ wg.greeks :
          wg' = [wg EXCEPT !.greeks = @ \cup {t}]
    /\ UNCHANGED <<orderVars, now, loopVars, mdVars, sc, sel, bld, ph, so, hs, cn>>

InitWait ==
    /\ InitOrder
    /\ InitLoopOff
    /\ InitMDOff
    /\ \E tickers \in SUBSET Instruments, timeout \in Timeouts :
       \E greeks \in SUBSET tickers :
          wg = [pc |-> "call", tickers |-> tickers, timeout |-> timeout,
                greeks |-> greeks, atCall |-> greeks, time |-> 0,
                deadline |-> 0, ret |-> FALSE, polls |-> <<>>, sleeps |-> 0]
    /\ sc = Off
    /\ sel = Off
    /\ bld = Off
    /\ ph = Off
    /\ so = Off
    /\ hs = Off
    /\ cn = Off

NextWait ==
    \/ WaitCall
    \/ WaitWake
    \/ GreeksArrive

SpecWait == InitWait /\ [][NextWait]_vars

(***************************************************************************)
(* _parse_hours on hours text of the venue's format.  The text is written  *)
(* from a list of day segments, each a day of January 2025 that is CLOSED  *)
(* or has one or more HHMM-HHMM sessions, and parsed for a given day.      *)
(***************************************************************************)
MaxSegments == 3

ParseDays == {2, 3}
SessionLists == {<<<<930, 1200>>>>,
                 <<<<930, 1200>>, <<1315, 1600>>>>,
                 <<<<1315, 1600>>, <<930, 1200>>>>}
Segments == [date : ParseDays, closed : {TRUE}, sessions : {<<>>}]
                \cup [date : ParseDays, closed : {FALSE}, sessions : SessionLists]

\* HHMM-HHMM(,HHMM-HHMM)*
RECURSIVE FormatSessions(_)
FormatSessions(sessions) ==
    IF sessions = <<>> THEN <<>>
    ELSE HHMM(Head(sessions)[1]) \o <<DASH>> \o HHMM(Head(sessions)[2])
             \o (IF Len(sessions) > 1 THEN <<COMMA>> ELSE <<>>)
             \o FormatSessions(Tail(sessions))

\* YYYYMMDD:(CLOSED|sessions)
FormatSegment(seg) ==
    Day(seg.date) \o <<COLON>> \o
        (IF seg.closed THEN <<CLOSED>> ELSE FormatSessions(seg.sessions))

\* SEG(;SEG)*
RECURSIVE FormatHours(_)
FormatHours(segs) ==
    IF segs = <<>> THEN <<>>
    ELSE FormatSegment(Head(segs))
             \o (IF Len(segs) > 1 THEN <<SEMI>> ELSE <<>>)
             \o FormatHours(Tail(segs))

ParseHours ==
    /\ ph.pc = "call"
    /\ ph' = [ph EXCEPT !.pc = "returned",
                        !.intervals = _parse_hours(ph.hours_str, Day(ph.day))]
    /\ UNCHANGED <<orderVars, now, loopVars, mdVars, sc, sel, wg, bld, so, hs, cn>>

InitParse ==
    /\ InitOrder
    /\ InitLoopOff
    /\ InitMDOff
    /\ \E segs \in SeqsUpTo(Segments, MaxSegments), day \in ParseDays :
          ph = [pc |-> "call", segs |-> segs, hours_str |-> FormatHours(segs),
                day |-> day, intervals |-> <<>>]
    /\ sc = Off
    /\ sel = Off
    /\ wg = Off
    /\ bld = Off
    /\ so = Off
    /\ hs = Off
    /\ cn = Off

NextParse == ParseHours

SpecParse == InitParse /\ [][NextParse]_vars

(***************************************************************************)
(* SessionSchedule.is_open on a schedule of up to MaxIntervals intervals   *)
(* whose ends are wall-clock times of the schedule's zone, at one of the   *)
(* instants of the clock.                                                  *)
(***************************************************************************)
MaxIntervals == 2

OpenTimes == {datetime(2025, 1, 3, 9, 30), datetime(2025, 1, 3, 12, 0),
              datetime(2025, 1, 3, 12, 30), datetime(2025, 1, 3, 16, 0)}
OpenZones == {SelfTz, "Europe/London"}

IsOpenCall ==
    /\ so.pc = "call"
    /\ so' = [so EXCEPT !.pc = "returned",
                        !.ret = is_open(so.sched, so.i)]
    /\ UNCHANGED <<orderVars, now, loopVars, mdVars, sc, sel, wg, bld, ph, hs, cn>>

InitOpen ==
    /\ InitOrder
    /\ InitLoopOff
    /\ InitMDOff
    /\ \E intervals \in SeqsUpTo(OpenTimes \X OpenTimes, MaxIntervals),
          tz \in OpenZones, i \in 1 .. Len(Instants) :
          so = [pc |-> "call", sched |-> [tz |-> tz, intervals |-> intervals],
                i |-> i, ret |-> FALSE]
    /\ sc = Off
    /\ sel = Off
    /\ wg = Off
    /\ bld = Off
    /\ ph = Off
    /\ hs = Off
    /\ cn = Off

NextOpen == IsOpenCall

SpecOpen == InitOpen /\ [][NextOpen]_vars

(***************************************************************************)
(* HistorySpec.duration_str.  A duration string "<n> <U>" is the pair      *)
(* <<n, U>>.                                                               *)
(***************************************************************************)
BarSize == {"5 secs", "15 secs", "1 min", "5 mins", "15 mins", "1 hour", "1 day"}

BAR_SECONDS ==
    [bs \in BarSize |->
        CASE bs = "5 secs" -> 5
          [] bs = "15 secs" -> 15
          [] bs = "1 min" -> 60
          [] bs = "5 mins" -> 5 * 60
          [] bs = "15 mins" -> 15 * 60
          [] bs = "1 hour" -> 60 * 60
          [] bs = "1 day" -> 24 * 60 * 60]

Lengths == {1, 5, 20, 30, 55, 200, 350, 400}
WarmupBars == {0, 50}

\* math.ceil(a / b) for a >= 0 and b > 0
ceil(a, b) == (a + b - 1) \div b

duration_strWithoutCushion(bar_size, length, warmup_bars) ==
    LET bars_needed == length + warmup_bars
        seconds_needed == bars_needed * BAR_SECONDS[bar_size]
        days == ceil(seconds_needed, 24 * 60 * 60)
    IN  IF seconds_needed <= 60 * 60 THEN <<seconds_needed, "S">>
        ELSE IF days <= 6 THEN <<days, "D">>
        ELSE IF days <= 60 THEN <<ceil(days, 7), "W">>
        ELSE IF days <= 365 THEN <<ceil(days, 30), "M">>
        ELSE <<ceil(days, 365), "Y">>

\* int(days * 1.6) is the integer part of 16 * days / 10
duration_str(bar_size, length, warmup_bars) ==
    LET bars_needed == length + warmup_bars
        seconds_needed == bars_needed * BAR_SECONDS[bar_size]
        days0 == ceil(seconds_needed, 24 * 60 * 60)
        days == (days0 * 16) \div 10 + 2
    IN  IF seconds_needed <= 60 * 60 THEN <<seconds_needed, "S">>
        ELSE IF days <= 6 THEN <<days, "D">>
        ELSE IF days <= 60 THEN <<ceil(days, 7), "W">>
        ELSE IF days <= 365 THEN <<ceil(days, 30), "M">>
        ELSE <<ceil(days, 365), "Y">>

DurationStr ==
    /\ hs.pc = "call"
    /\ hs' = [hs EXCEPT !.pc = "returned",
                        !.ret = duration_str(hs.bar_size, hs.length, hs.warmup_bars)]
    /\ UNCHANGED <<orderVars, now, loopVars, mdVars, sc, sel, wg, bld, ph, so, cn>>

InitHistory ==
    /\ InitOrder
    /\ InitLoopOff
    /\ InitMDOff
    /\ hs \in [pc : {"call"}, bar_size : BarSize, length : Lengths,
                warmup_bars : WarmupBars, ret : {<<0, "">>}]
    /\ sc = Off
    /\ sel = Off
    /\ wg = Off
    /\ bld = Off
    /\ ph = Off
    /\ so = Off
    /\ cn = Off

NextHistory == DurationStr

SpecHistory == InitHistory /\ [][NextHistory]_vars

(***************************************************************************)
(* StrategyBase.connect.  The venue lets a connection attempt raise at     *)
(* most MaxFailures times; an attempt takes one of ConnectTimes seconds.   *)
(* Another task holding the same IB object may connect it during a sleep.  *)
(***************************************************************************)
MaxFailures == 3

ConnectTimes == {1, 2, 4}

\* await asyncio.sleep(5)
RetrySleep == 5

\* while not self.ib.isConnected(): ... await self.ib.connectAsync(...)
\* -- from the loop test to the next await or to the return
ConnectLoop(c) ==
    IF c.connected
    THEN [c EXCEPT !.pc = "returned"]
    ELSE [c EXCEPT !.pc = "connecting",
                   !.attempts = Append(@, [at |-> c.time, raised |-> FALSE])]

\* if self.ib.isConnected(): return -- else the loop up to its first await
ConnectCall ==
    /\ cn.pc = "call"
    /\ cn' = ConnectLoop(cn)
    /\ UNCHANGED <<orderVars, now, loopVars, mdVars, sc, sel, wg, bld, ph, so, hs>>

\* connectAsync returns: the connection is up, "Connected to IB." is logged
ConnectSucceeds ==
    /\ cn.pc = "connecting"
    /\ \E dt \in ConnectTimes :
          cn' = ConnectLoop([cn EXCEPT !.connected = TRUE, !.time = @ + dt])
    /\ UNCHANGED <<orderVars, now, loopVars, mdVars, sc, sel, wg, bld, ph, so, hs>>

ConnectRaisesGivesUp ==
    /\ cn.pc = "connecting"
    /\ Len(cn.sleeps) < MaxFailures
    /\ \E dt \in ConnectTimes :
          cn' = [cn EXCEPT !.pc = "returned",
                           !.time = @ + dt,
                           !.attempts[Len(cn.attempts)].raised = TRUE,
                           !.sleeps = Append(@, RetrySleep)]
    /\ UNCHANGED <<orderVars, now, loopVars, mdVars, sc, sel, wg, bld, ph, so, hs>>

\* connectAsync raises: a warning is logged and the call sleeps
ConnectRaises ==
    /\ cn.pc = "connecting"
    /\ Len(cn.sleeps) < MaxFailures
    /\ \E dt \in ConnectTimes :
          cn' = [cn EXCEPT !.pc = "sleeping",
                           !.time = @ + dt,
                           !.attempts[Len(cn.attempts)].raised = TRUE,
                           !.sleeps = Append(@, RetrySleep)]
    /\ UNCHANGED <<orderVars, now, loopVars, mdVars, sc, sel, wg, bld, ph, so, hs>>

\* The sleep is over: the loop tests the connection again
ConnectWake ==
    /\ cn.pc = "sleeping"
    /\ cn' = ConnectLoop([cn EXCEPT !.time = @ + cn.sleeps[Len(cn.sleeps)]])
    /\ UNCHANGED <<orderVars, now, loopVars, mdVars, sc, sel, wg, bld, ph, so, hs>>

\* The connection comes up by another task's doing while the call sleeps
ConnectedElsewhere ==
    /\ cn.pc = "sleeping"
    /\ ~cn.connected
    /\ cn' = [cn EXCEPT !.connected = TRUE]
    /\ UNCHANGED <<orderVars, now, loopVars, mdVars, sc, sel, wg, bld, ph, so, hs>>

InitConnect ==
    /\ InitOrder
    /\ InitLoopOff
    /\ InitMDOff
    /\ \E connected \in BOOLEAN :
          cn = [pc |-> "call", connected |-> connected, atCall |-> connected,
                time |-> 0, attempts |-> <<>>, sleeps |-> <<>>]
    /\ sc = Off
    /\ sel = Off
    /\ wg = Off
    /\ bld = Off
    /\ ph = Off
    /\ so = Off
    /\ hs = Off

NextConnect ==
    \/ ConnectCall
    \/ ConnectSucceeds
    \/ ConnectRaises
    \/ ConnectWake
    \/ ConnectedElsewhere

SpecConnect == InitConnect /\ [][NextConnect]_vars

(***************************************************************************)
(* Properties of limit_buy.                                                *)
(***************************************************************************)
Attempts == progression.attempts
Adjustment == progression.adjustment
WithProgression == pc # "idle" /\ progression.given /\ progression.attempts > 0
Returned == pc = "done"
NeverTerminal == \A i \in 1 .. Len(observed) : observed[i] \notin {Filled, Cancelled}

\* C1: with attempts = N > 0 and a status that is neither Filled nor
\* Cancelled at any check, the call makes exactly N resubmissions, the k-th
\* at limit - k * adjustment, and only after the N-th issues one cancel
\* request and returns none.
C1_ExactlyNAdjustments ==
    WithProgression =>
        /\ \A k \in 1 .. Len(placements) - 1 :
               placements[k + 1].lmtPrice = limit0 - k * Adjustment
        /\ cancels # <<>> => Len(placements) = Attempts + 1 /\ Len(cancels) = 1
        /\ (Returned /\ NeverTerminal) =>
               /\ Len(placements) = Attempts + 1
               /\ lmtPrice = limit0 - Attempts * Adjustment
               /\ Len(cancels) = 1
               /\ result = "none"

C1_Witness ==
    /\ WithProgression /\ Returned /\ NeverTerminal
    /\ Attempts = 3 /\ Adjustment = 2
    /\ Len(placements) = 4 /\ placements[4].lmtPrice = limit0 - 6
    /\ Len(cancels) = 1

\* C2: a Filled status read at a check inside the loop ends the call with the
\* trade: that check is the last one, and no resubmission or cancel request
\* was made at or after it.
C2_FilledInLoopReturnsTrade ==
    WithProgression =>
        \A i \in 1 .. Len(observed) :
            (i <= Attempts /\ observed[i] = Filled) =>
                /\ i = Len(observed)
                /\ Returned
                /\ result = "trade"
                /\ Len(placements) = i
                /\ lmtPrice = limit0 - (i - 1) * Adjustment
                /\ cancels = <<>>
                /\ waits = i

C2_Witness ==
    /\ WithProgression /\ Returned
    /\ Attempts = 3 /\ Len(observed) = 2 /\ observed[2] = Filled
    /\ result = "trade" /\ Len(placements) = 2

\* C3: a Cancelled status read at a check inside the loop ends the call with
\* none: no price adjustment, resubmission or cancel request follows.
C3_CancelledInLoopReturnsNone ==
    WithProgression =>
        \A i \in 1 .. Len(observed) :
            (i <= Attempts /\ observed[i] = Cancelled) =>
                /\ i = Len(observed)
                /\ Returned
                /\ result = "none"
                /\ Len(placements) = i
                /\ lmtPrice = limit0 - (i - 1) * Adjustment
                /\ cancels = <<>>
                /\ waits = i

C3_Witness ==
    /\ WithProgression /\ Returned
    /\ Attempts = 3 /\ Len(observed) = 2 /\ observed[2] = Cancelled
    /\ result = "none" /\ Len(placements) = 2 /\ cancels = <<>>

\* C4: once all N adjustments are made the call waits once more and reads the
\* status once: Filled returns the trade without a cancel request, every
\* other status issues exactly one cancel request for the order and returns
\* none.
C4_FinalWaitThenCancel ==
    (WithProgression /\ Len(placements) = Attempts + 1) =>
        /\ pc \in {"final_sleep", "done"}
        /\ pc = "final_sleep" =>
               waits = Attempts /\ Len(observed) = Attempts /\ cancels = <<>>
        /\ Returned =>
               /\ waits = Attempts + 1
               /\ Len(observed) = Attempts + 1
               /\ observed[Attempts + 1] = Filled =>
                      result = "trade" /\ cancels = <<>>
               /\ observed[Attempts + 1] # Filled =>
                      result = "none" /\ cancels = <<orderId>>

C4_Witness ==
    /\ WithProgression /\ Returned
    /\ Attempts = 2 /\ Len(observed) = 3 /\ observed[3] = Cancelled
    /\ cancels = <<orderId>> /\ result = "none"

\* C5: without a progression, or with attempts <= 0, the call places exactly
\* one order and returns the trade with no wait, status check, price
\* adjustment or cancel request, whatever the status is or becomes.
C5_NoProgressionFireAndForget ==
    (pc # "idle" /\ (~progression.given \/ progression.attempts <= 0)) =>
        /\ Returned
        /\ result = "trade"
        /\ placements = <<[orderId |-> orderId, lmtPrice |-> limit0]>>
        /\ lmtPrice = limit0
        /\ waits = 0
        /\ observed = <<>>
        /\ cancels = <<>>

C5_Witness ==
    /\ Returned /\ progression.given /\ progression.attempts = 0
    /\ status = Cancelled /\ result = "trade" /\ Len(placements) = 1

C6_Bounds ==
    WithProgression =>
        /\ waits <= Attempts + 1
        /\ Len(placements) <= Attempts + 1
        /\ Len(cancels) <= 1
        /\ limit0 - lmtPrice <= Attempts * Adjustment
        /\ limit0 - lmtPrice >= 0

\* C6: a call with attempts = N returns for every evolution of the status,
\* after at most N + 1 waits, N + 1 placements and one cancel request, the
\* price never more than N * adjustment away from the initial limit.
C6_BoundedTermination ==
    /\ []C6_Bounds
    /\ (pc # "idle") ~> (pc = "done")

C6_Witness ==
    /\ WithProgression /\ Returned
    /\ Attempts = 3 /\ waits = 4 /\ Len(placements) = 4 /\ Len(cancels) = 1
    /\ limit0 - lmtPrice = 3 * Adjustment /\ Adjustment = 2

(***************************************************************************)
(* Properties of the execution loop.                                       *)
(***************************************************************************)
AttemptInFlight == lpc \in {"building", "quoting", "filling"}

C7_AttemptOnlyBeforeDeadline ==
    /\ AttemptInFlight => checkedAt < deadline
    /\ (lpc = "returned" /\ loopResult = "none") => checkedAt >= deadline
    /\ (lpc \notin {"idle", "top"} /\ checkedAt >= deadline) =>
           lpc = "returned" /\ loopResult = "none"

C7_Step ==
    /\ placements' # placements => (AttemptInFlight /\ checkedAt < deadline)
    /\ (lpc = "filling" /\ lpc' # "filling") => pc = "done"
    /\ (lpc \in {"building", "quoting"} /\ lpc' # lpc) =>
           lpc' \in {"quoting", "filling"}
    /\ lpc = "returned" =>
           UNCHANGED <<lpc, loopResult, placements, cancels, orderId>>

\* C7: an attempt (and so an order placement) starts only in an iteration
\* whose deadline check found the deadline not elapsed; a started attempt is
\* left only by its completion, also when the deadline elapses meanwhile;
\* once the check finds the deadline elapsed, none is returned and no
\* further attempt starts.
C7_DeadlineGatesAttempts ==
    /\ []C7_AttemptOnlyBeforeDeadline
    /\ [][C7_Step]_vars

C7_Witness ==
    /\ lpc = "filling" /\ pc = "done" /\ result = "none"
    /\ now > deadline /\ checkedAt < deadline
    /\ Len(placements) = 3 /\ Len(cancels) = 1

(***************************************************************************)
(* Properties of the market data type manager.                             *)
(***************************************************************************)
Finishing(t) == task[t].pc = "details" /\ task'[t].pc = "done"
LastRequested == IF requests = <<>> THEN NoMode ELSE requests[Len(requests)]

C8_Step ==
    /\ \A t \in Tasks :
           Finishing(t) =>
               IF task'[t].ret # LastRequested
               THEN requests' = Append(requests, task'[t].ret)
               ELSE requests' = requests
    /\ (\A t \in Tasks : ~Finishing(t)) => requests' = requests

\* C8: a call sends a mode-switch request exactly when its desired mode
\* differs from the mode of the last request this manager sent (the first
\* completed call always sends one); no other step sends a request.
C8_SwitchOnlyOnChange == [][C8_Step]_vars

C8_Witness ==
    /\ calls = 3
    /\ \A t \in Tasks : task[t].pc = "done"
    /\ Len(requests) = 2
    /\ requests[1] # requests[2]

\* The mode the call must return at the current instant: open_type when the
\* schedule of its own instrument for today is open now, else closed_type.
OwnDesired(t) ==
    IF is_open(BuildSchedule(Details(task[t].contract), clock), clock)
    THEN task[t].open_type
    ELSE task[t].closed_type

\* C9: the call returns open_type if and only if the schedule of its
\* instrument for today is open at the time of the call, closed_type
\* otherwise, whether or not it sent a switch request.
C9_ReturnsModeOfOwnSchedule ==
    [][\A t \in Tasks : Finishing(t) => task'[t].ret = OwnDesired(t)]_vars

\* The same for calls whose contract carries a resolved identifier.
C9_ResolvedOnly ==
    [][\A t \in Tasks :
          (Finishing(t) /\ conId[task[t].contract] # 0) =>
              task'[t].ret = OwnDesired(t)]_vars

KeyMatches(t) == cache_key = CacheKeyOf(task[t].contract, clock)

C10_CachePaired == (cache_key = NoKey) <=> (cache = NoSchedule)

C10_Rebuild(t) ==
    IF KeyMatches(t)
    THEN /\ UNCHANGED <<cache_key, cache, parses>>
         /\ task'[t].hit
    ELSE /\ parses' = parses + 1
         /\ cache_key' = CacheKeyOf(task[t].contract, clock)
         /\ cache' = BuildSchedule(Details(task[t].contract), clock)
         /\ ~task'[t].hit

\* C10 as stated: the schedule is rebuilt exactly when the key differs, and
\* on a matching key the cached schedule is reused without fetching or
\* parsing the hours text.
C10_ReuseWithoutFetch ==
    [][\A t \in Tasks :
          Finishing(t) =>
              /\ C10_Rebuild(t)
              /\ KeyMatches(t) => ~task'[t].fetched]_vars

\* C10 amended: the schedule is parsed and stored with the new key exactly
\* when the key differs from the cached key; on a matching key the cached
\* schedule is reused without parsing.  The contract details that carry the
\* hours text are requested from the venue in every call, before the key
\* is compared.
C10_RebuildExactlyOnKeyChange ==
    /\ []C10_CachePaired
    /\ [][\A t \in Tasks :
             /\ Finishing(t) => (C10_Rebuild(t) /\ task'[t].fetched)
             /\ (task[t].pc = "qualify" /\ task'[t].pc = "details") =>
                    fetches' = fetches + 1]_vars
    /\ [][(\A t \in Tasks : ~Finishing(t)) => UNCHANGED <<cache_key, cache, parses>>]_vars

C10_Witness ==
    /\ calls = 3 /\ parses = 2 /\ fetches = 3
    /\ \E t \in Tasks : task[t].pc = "done" /\ task[t].hit /\ task[t].fetched
    /\ cache_key # NoKey /\ cache_key[1] # 0 /\ clock > 2

CallStep(t) == task'[t] # task[t]
Failing(t) == task[t].pc = "details" /\ task'[t].pc = "failed"
CompletesCall(t) == task'[t].pc = "done" /\ task[t].pc # "done"

\* C11: when the venue returns no contract details the call fails instead
\* of returning a mode, and from its start to its failure it sends no
\* mode-switch request and leaves the cached key, the cached schedule and
\* the last-set mode as they were.
C11_NoDetailsFailsWithoutEffect ==
    /\ [](\A t \in Tasks : task[t].pc = "failed" => task[t].ret = NoMode)
    /\ [][\A t \in Tasks :
             /\ Failing(t) =>
                    UNCHANGED <<cache_key, cache, current_md_type, requests>>
             /\ (CallStep(t) /\ ~CompletesCall(t)) =>
                    UNCHANGED <<cache_key, cache, current_md_type, requests>>]_vars

C11_Witness ==
    /\ \E t \in Tasks : task[t].pc = "failed" /\ task[t].fetched
    /\ cache_key # NoKey
    /\ current_md_type # NoMode
    /\ Len(requests) = 1

(***************************************************************************)
(* Properties of strike selection and spread building.                     *)
(***************************************************************************)
WithDelta == {i \in 1 .. Len(sel.tickers) : sel.tickers[i].greeks}
Distance(i) == abs(sel.tickers[i].delta - sel.target_delta)

\* C12: the selection returns a candidate with a delta whose distance to
\* the target is minimal and whose bid is the highest among the candidates
\* at that distance; a candidate without delta is never returned; when no
\* candidate has a delta the selection raises instead of returning.
C12_ClosestDeltaThenHighestBid ==
    /\ sel.pc = "returned" =>
           /\ sel.best \in WithDelta
           /\ \A j \in WithDelta :
                  \/ Distance(sel.best) < Distance(j)
                  \/ /\ Distance(sel.best) = Distance(j)
                     /\ sel.tickers[sel.best].bid >= sel.tickers[j].bid
    /\ sel.pc = "raised" => (WithDelta = {} /\ sel.best = 0)
    /\ sel.pc \in {"returned", "raised"} =>
           (sel.pc = "raised" <=> WithDelta = {})

C12_Witness ==
    /\ sel.pc = "returned"
    /\ Len(sel.tickers) = 3
    /\ ~sel.tickers[1].greeks /\ sel.tickers[1].delta = -18
    /\ sel.tickers[2].greeks /\ sel.tickers[3].greeks
    /\ sel.target_delta = -15
    /\ Distance(2) = Distance(3)
    /\ sel.tickers[2].bid < sel.tickers[3].bid
    /\ sel.best = 3

\* C13: for a put the generator returns exactly strikes_down strikes; the
\* first is the largest multiple of the increment not above the reference
\* price and the i-th (counting from 0) is the first minus i increments.
C13_PutStrikesAlignedDownward ==
    (sc.pc = "returned" /\ sc.right = PUT) =>
        /\ Len(sc.strikes) = sc.strikes_down
        /\ sc.strikes_down > 0 =>
               /\ sc.strikes[1] % sc.inc = 0
               /\ sc.strikes[1] <= sc.start
               /\ sc.start - sc.strikes[1] < sc.inc
        /\ \A i \in range(sc.strikes_down) :
               sc.strikes[i + 1] = sc.strikes[1] - i * sc.inc

C13_Witness ==
    /\ sc.pc = "returned"
    /\ sc.right = PUT
    /\ sc.start = 102
    /\ sc.inc = 5
    /\ sc.strikes = <<100, 95, 90>>

\* C14: for a call the first strike is the reference price rounded up to
\* a multiple of the increment (the smallest multiple not below it) and
\* the i-th strike (counting from 0) is the first plus i increments.
C14_CallStrikesAlignedUpward ==
    (sc.pc = "returned" /\ sc.right = CALL) =>
        /\ Len(sc.strikes) = sc.strikes_down
        /\ sc.strikes_down > 0 =>
               /\ sc.strikes[1] % sc.inc = 0
               /\ sc.strikes[1] >= sc.start
               /\ sc.strikes[1] - sc.start < sc.inc
        /\ \A i \in range(sc.strikes_down) :
               sc.strikes[i + 1] = sc.strikes[1] + i * sc.inc

\* What the call branch does return: start + start % inc, then upward by
\* the increment
C14_CallStrikesAsComputed ==
    (sc.pc = "returned" /\ sc.right = CALL) =>
        /\ Len(sc.strikes) = sc.strikes_down
        /\ \A i \in range(sc.strikes_down) :
               sc.strikes[i + 1] = sc.start + (sc.start % sc.inc) + i * sc.inc

Pair == bld.pc = "returned" /\ bld.ret = "pair"

WaitReturned == wg.pc = "returned"

\* Some poll made at time t or earlier found greeks on every instrument
PolledAllBy(t) == \E k \in 1 .. Len(wg.polls) : wg.polls[k][1] <= t /\ wg.polls[k][2]

\* C16: wait_for_greeks returns true exactly when a poll not later than
\* the deadline found greeks on every instrument; when every instrument
\* has greeks at the call it returns true without sleeping, whatever the
\* timeout, 0 included; otherwise it returns false once the deadline is
\* reached.
C16_TrueIffAllGreeksByDeadline ==
    WaitReturned =>
        /\ wg.ret <=> PolledAllBy(wg.deadline)
        /\ AllGreeks(wg.tickers, wg.atCall) => (wg.ret /\ wg.sleeps = 0)
        /\ ~wg.ret => wg.time >= wg.deadline

\* With a positive timeout the statement holds: the first poll happens at
\* the call and every poll before the deadline
C16_PositiveTimeout ==
    (WaitReturned /\ wg.timeout > 0) =>
        /\ wg.ret <=> PolledAllBy(wg.deadline - 1)
        /\ AllGreeks(wg.tickers, wg.atCall) => (wg.ret /\ wg.sleeps = 0)
        /\ ~wg.ret => wg.time >= wg.deadline

\* With timeout 0 no poll is made and the result is false
C16_ZeroTimeoutNeverPolls ==
    (WaitReturned /\ wg.timeout = 0) => (~wg.ret /\ wg.polls = <<>>)

SpotSeen == bld.pc \notin {"off", "call", "await_spot"}

FailedSoftly ==
    /\ bld.pc = "returned"
    /\ bld.ret = "none"
    /\ bld.logged
    /\ ~bld.generated
    /\ bld.contracts = <<>>
    /\ bld.trace = <<"reqTickers_underlying">>

\* C17: when the underlying's price is missing or not-a-number the build
\* logs an error and returns no legs, having generated no strike, sent no
\* option contract for qualification and requested no option quote.
C17_NoSpotFailsSoftly ==
    (SpotSeen /\ (bld.spot.none \/ bld.spot.nan)) => FailedSoftly

\* The missing price alone is handled that way
C17_MissingSpotFailsSoftly ==
    (SpotSeen /\ bld.spot.none) => FailedSoftly

\* A not-a-number price goes through candidate generation, qualification
\* and the quote request, and the selection raises
C17_NanSpotRaises ==
    (bld.pc \in {"returned", "raised"} /\ bld.spot.nan /\ SpotSeen) =>
        /\ bld.pc = "raised"
        /\ ~bld.logged
        /\ bld.generated
        /\ bld.trace = <<"reqTickers_underlying", "reqSecDefOptParams",
                         "qualify_candidates", "reqTickers_candidates">>

\* C18: both legs of a returned pair carry a conId assigned by the venue,
\* also when the venue does not list the long leg's strike.
C18_BothLegsQualified ==
    Pair => (bld.short.conId # 0 /\ bld.long.conId # 0)

\* The long leg is returned as made when the venue does not list its strike
C18_LongLegQualifiedIffListed ==
    Pair =>
        /\ bld.short.conId # 0
        /\ bld.long.conId # 0 <=> bld.long.strike.v \in bld.chain

(***************************************************************************)
(* Properties of _parse_hours.                                             *)
(***************************************************************************)
Parsed == ph.pc = "returned"
SegmentsOfDay == {k \in 1 .. Len(ph.segs) : ph.segs[k].date = ph.day}

\* The interval of a session on the parsed day
SessionInterval(session) ==
    << <<2025, 1, ph.day, session[1] \div 100, session[1] % 100>>,
       <<2025, 1, ph.day, session[2] \div 100, session[2] % 100>> >>

\* C19: when one segment of the text has the parsed day's date and lists
\* sessions, the result has one interval per session of that segment, in
\* the order of the text, each from that day at the session's first HHMM
\* to that day at its second HHMM.
C19_OneIntervalPerSession ==
    \A k \in SegmentsOfDay :
        (Parsed /\ SegmentsOfDay = {k} /\ ~ph.segs[k].closed) =>
            ph.intervals = [j \in 1 .. Len(ph.segs[k].sessions) |->
                               SessionInterval(ph.segs[k].sessions[j])]

C19_Witness ==
    /\ Parsed
    /\ Len(ph.segs) = 3
    /\ ph.day = 3
    /\ SegmentsOfDay = {2}
    /\ ph.segs[1].closed
    /\ ph.segs[2].sessions = <<<<930, 1200>>, <<1315, 1600>>>>
    /\ ph.intervals = << << <<2025, 1, 3, 9, 30>>, <<2025, 1, 3, 12, 0>> >>,
                         << <<2025, 1, 3, 13, 15>>, <<2025, 1, 3, 16, 0>> >> >>

\* C20: when the text has a CLOSED segment of the parsed day the result
\* is empty, whatever segments come before or after it, of that day or of
\* another.
C20_ClosedTodayIsEmpty ==
    (Parsed /\ \E k \in SegmentsOfDay : ph.segs[k].closed) => ph.intervals = <<>>

C20_Witness ==
    /\ Parsed
    /\ Len(ph.segs) = 3
    /\ ph.segs[1].date = ph.day /\ ~ph.segs[1].closed
    /\ ph.segs[2].date = ph.day /\ ph.segs[2].closed
    /\ ph.segs[3].date # ph.day /\ ~ph.segs[3].closed
    /\ ph.intervals = <<>>

\* The intervals the sessions of a segment stand for on the parsed day
SegmentIntervals(seg) ==
    [j \in 1 .. Len(seg.sessions) |-> SessionInterval(seg.sessions[j])]

\* The intervals of the segments of the parsed day alone, in text order
RECURSIVE TodayIntervals(_)
TodayIntervals(segs) ==
    IF segs = <<>> THEN <<>>
    ELSE IF Head(segs).date = ph.day
         THEN SegmentIntervals(Head(segs)) \o TodayIntervals(Tail(segs))
         ELSE TodayIntervals(Tail(segs))

\* C21: a segment of another day adds nothing to the result and takes
\* nothing from it, whether it lists sessions or is CLOSED: unless the
\* parsed day itself has a CLOSED segment, the result is the intervals of
\* the parsed day's segments alone.
C21_OtherDaysContributeNothing ==
    (Parsed /\ \A k \in SegmentsOfDay : ~ph.segs[k].closed) =>
        ph.intervals = TodayIntervals(ph.segs)

C21_Witness ==
    /\ Parsed
    /\ Len(ph.segs) = 3
    /\ ph.day = 3
    /\ ph.segs[1].date = 2 /\ ph.segs[1].closed
    /\ ph.segs[2].date = 3 /\ ph.segs[2].sessions = <<<<930, 1200>>>>
    /\ ph.segs[3].date = 2 /\ ph.segs[3].sessions = <<<<1315, 1600>>, <<930, 1200>>>>
    /\ ph.intervals = << << <<2025, 1, 3, 9, 30>>, <<2025, 1, 3, 12, 0>> >> >>

(***************************************************************************)
(* Properties of SessionSchedule.is_open.                                  *)
(***************************************************************************)
\* a is an earlier wall-clock time than b
Earlier(a, b) ==
    \E k \in 1 .. 5 : a[k] < b[k] /\ \A j \in 1 .. k - 1 : a[j] = b[j]

OpenNow == NowIn(so.sched.tz, so.i)

Within(interval) == ~Earlier(OpenNow, interval[1]) /\ ~Earlier(interval[2], OpenNow)

\* C22: is_open returns true exactly when now lies in one of the
\* intervals, a now equal to a start or to an end included; so it is false
\* for a now between two intervals and for an empty interval list.
C22_OpenIffWithinSomeInterval ==
    so.pc = "returned" =>
        /\ so.ret <=> \E k \in 1 .. Len(so.sched.intervals) : Within(so.sched.intervals[k])
        /\ so.sched.intervals = <<>> => ~so.ret

C22_Witness ==
    /\ so.pc = "returned"
    /\ so.sched.tz = SelfTz
    /\ so.sched.intervals = << <<datetime(2025, 1, 3, 9, 30), datetime(2025, 1, 3, 12, 0)>>,
                               <<datetime(2025, 1, 3, 12, 30), datetime(2025, 1, 3, 16, 0)>> >>
    /\ OpenNow = <<2025, 1, 3, 12, 0>>
    /\ so.ret

C22_WitnessBetween ==
    /\ so.pc = "returned"
    /\ so.sched.intervals = << <<datetime(2025, 1, 3, 9, 30), datetime(2025, 1, 3, 9, 30)>>,
                               <<datetime(2025, 1, 3, 12, 30), datetime(2025, 1, 3, 16, 0)>> >>
    /\ OpenNow = <<2025, 1, 3, 12, 0>>
    /\ ~so.ret

(***************************************************************************)
(* Properties of the schedule built from the parsed intervals.             *)
(***************************************************************************)
\* C23: the intervals of a schedule built from hours text of the grammar
\* are sorted by start, do not overlap one another, and each starts no
\* later than it ends.
C23_IntervalsSortedAndDisjoint ==
    Parsed =>
        /\ \A k \in 1 .. Len(ph.intervals) :
               ~Earlier(ph.intervals[k][2], ph.intervals[k][1])
        /\ \A j, k \in 1 .. Len(ph.intervals) :
               j < k => Earlier(ph.intervals[j][2], ph.intervals[k][1])

\* What does hold: each interval starts no later than it ends when every
\* session of the text does
C23_StartNotAfterEnd ==
    Parsed => \A k \in 1 .. Len(ph.intervals) :
                  ~Earlier(ph.intervals[k][2], ph.intervals[k][1])

(***************************************************************************)
(* Properties of HistorySpec.duration_str.                                 *)
(***************************************************************************)
SecondsNeeded == (hs.length + hs.warmup_bars) * BAR_SECONDS[hs.bar_size]

\* floor(ceil(s / 86400) * 1.6) + 2
PaddedDays == (8 * ((SecondsNeeded + 86399) \div 86400)) \div 5 + 2

\* C24: with s = (length + warmup_bars) * seconds per bar, duration_str is
\* "<s> S" when s <= 3600; otherwise, with days = floor(ceil(s / 86400) *
\* 1.6) + 2, it is "<days> D" when days <= 6, "<ceil(days / 7)> W" when
\* days <= 60, "<ceil(days / 30)> M" when days <= 365 and
\* "<ceil(days / 365)> Y" above.
C24_DurationByMagnitude ==
    hs.pc = "returned" =>
        /\ SecondsNeeded <= 3600 => hs.ret = <<SecondsNeeded, "S">>
        /\ (SecondsNeeded > 3600 /\ PaddedDays <= 6) => hs.ret = <<PaddedDays, "D">>
        /\ (SecondsNeeded > 3600 /\ PaddedDays > 6 /\ PaddedDays <= 60) =>
               hs.ret = <<(PaddedDays + 6) \div 7, "W">>
        /\ (SecondsNeeded > 3600 /\ PaddedDays > 60 /\ PaddedDays <= 365) =>
               hs.ret = <<(PaddedDays + 29) \div 30, "M">>
        /\ (SecondsNeeded > 3600 /\ PaddedDays > 365) =>
               hs.ret = <<(PaddedDays + 364) \div 365, "Y">>

\* 55 one-minute bars give "3300 S"
C24_Witness ==
    /\ hs.pc = "returned"
    /\ hs.bar_size = "1 min"
    /\ hs.length = 5
    /\ hs.warmup_bars = 50
    /\ hs.ret = <<3300, "S">>

\* 400 daily bars give "2 Y"; the other units occur as well
C24_WitnessYears ==
    /\ hs.pc = "returned"
    /\ hs.bar_size = "1 day"
    /\ hs.length + hs.warmup_bars = 400
    /\ hs.ret = <<2, "Y">>

C24_WitnessDays == hs.pc = "returned" /\ hs.ret[2] = "D"
C24_WitnessWeeks == hs.pc = "returned" /\ hs.ret[2] = "W"
C24_WitnessMonths == hs.pc = "returned" /\ hs.ret[2] = "M"

BuildOrder == <<"reqTickers_underlying", "reqSecDefOptParams", "qualify_candidates",
                "reqTickers_candidates", "qualify_long">>

BuildSteps == <<"call", "await_spot", "await_secdef", "await_qualify",
                "await_quotes", "await_greeks", "await_qualify_long">>

StepOf(p) == CHOOSE k \in 1 .. Len(BuildSteps) : BuildSteps[k] = p

BuildOver(p) == p \in {"returned", "raised"}

Requested(r) == \E k \in 1 .. Len(bld.trace) : bld.trace[k] = r

\* C25: one build talks to the broker in the order spot quote, (option
\* parameters,) candidate qualification, candidate quotes, long-leg
\* qualification, each request made only when the one before it has come
\* back; strikes are generated after the spot quote has arrived, quotes are
\* requested only for candidates already sent for qualification, and the
\* long leg is made only once the short leg is selected.
C25_BuildStepsInOrder ==
    /\ [](bld.trace = SubSeq(BuildOrder, 1, Len(bld.trace)))
    /\ [][\/ BuildOver(bld'.pc)
          \/ (~BuildOver(bld.pc) /\ StepOf(bld'.pc) = StepOf(bld.pc) + 1)]_bld
    /\ [][bld'.trace # bld.trace =>
             /\ Len(bld'.trace) = Len(bld.trace) + 1
             /\ bld.pc = BuildSteps[Len(bld.trace) + 1 +
                                    (IF Len(bld.trace) = 4 THEN 1 ELSE 0)]]_bld
    /\ [](bld.generated => (Requested("reqTickers_underlying") /\ ~bld.spot.none
                              /\ bld.pc \notin {"call", "await_spot", "await_secdef"}))
    /\ [](Requested("reqTickers_candidates") =>
              (bld.generated /\ Requested("qualify_candidates")
                  /\ bld.pc \notin {"call", "await_spot", "await_secdef", "await_qualify"}))
    /\ [](bld.long # NoContract =>
              (bld.short # NoContract /\ bld.tickers # <<>>
                  /\ Requested("reqTickers_candidates")))
    /\ [](Requested("qualify_long") => bld.long # NoContract)

C25_Witness ==
    /\ Pair
    /\ bld.trace = BuildOrder
    /\ bld.short.conId # 0
    /\ bld.long.conId # 0

(***************************************************************************)
(* Properties of StrategyBase.connect.                                     *)
(***************************************************************************)
RaisedAttempts == {k \in 1 .. Len(cn.attempts) : cn.attempts[k].raised}

\* C26: connect returns only with the connection up; already connected it
\* returns without an attempt; otherwise every attempt that raises is
\* followed by a sleep of 5 seconds and then, the connection still down,
\* by another attempt, however many attempts have been made.
C26_ReturnsOnlyConnected ==
    /\ [](cn.pc = "returned" => cn.connected)
    /\ []((cn.pc = "returned" /\ cn.atCall) =>
              (cn.attempts = <<>> /\ cn.sleeps = <<>>))
    /\ [](/\ Len(cn.sleeps) = Cardinality(RaisedAttempts)
          /\ \A k \in 1 .. Len(cn.sleeps) : cn.sleeps[k] = 5
          /\ \A k \in RaisedAttempts :
                 k < Len(cn.attempts) => cn.attempts[k + 1].at >= cn.attempts[k].at + 5)
    /\ [][(cn.pc = "connecting" /\ cn'.attempts[Len(cn.attempts)].raised) =>
              cn'.pc = "sleeping"]_cn
    /\ [][cn.pc = "sleeping" =>
              \/ cn'.pc = "sleeping"
              \/ cn.connected /\ cn'.pc = "returned"
              \/ ~cn.connected /\ cn'.pc = "connecting"
                    /\ Len(cn'.attempts) = Len(cn.attempts) + 1]_cn

C26_Witness ==
    /\ cn.pc = "returned"
    /\ ~cn.atCall
    /\ cn.connected
    /\ Len(cn.sleeps) = MaxFailures
    /\ Len(cn.attempts) = MaxFailures + 1
    /\ ~cn.attempts[Len(cn.attempts)].raised

(***************************************************************************)
(* Further properties of limit_buy.                                        *)
(***************************************************************************)
LastObserved == observed[Len(observed)]

\* C27: when limit_buy with a progression returns none, the last status
\* check saw Cancelled or the step that made that check also sent a
\* cancel request for the order, and the last status seen is not Filled.
C27_NoneNeverLeavesOrderWorking ==
    /\ []((WithProgression /\ result = "none") =>
              /\ observed # <<>>
              /\ LastObserved # Filled
              /\ LastObserved = Cancelled \/ cancels = <<orderId>>)
    /\ [][(result' = "none" /\ result # "none") =>
              /\ observed' = Append(observed, status)
              /\ status = Cancelled \/ cancels' = Append(cancels, orderId)]_vars
    /\ [][cancels' # cancels =>
              /\ cancels' = Append(cancels, orderId)
              /\ observed' = Append(observed, status)
              /\ result' = "none"]_vars

C27_Witness ==
    /\ WithProgression
    /\ result = "none"
    /\ LastObserved = "Submitted"
    /\ cancels = <<orderId>>
    /\ Len(placements) = 3

\* C28: every placement of one call carries the call's one order
\* identity, the placements differing in the limit price alone, and a
\* cancel request names that same order.
C28_OneOrderPerCall ==
    /\ \A k \in 1 .. Len(placements) : placements[k].orderId = orderId
    /\ \A k \in 1 .. Len(cancels) : cancels[k] = orderId
    /\ Len(cancels) <= 1
    /\ pc # "idle" => (placements # <<>> /\ placements[1].lmtPrice = limit0)

C28_Witness ==
    /\ pc = "done"
    /\ Len(placements) = 3
    /\ placements[1].lmtPrice # placements[3].lmtPrice
    /\ placements[1].orderId = placements[3].orderId
    /\ cancels = <<placements[1].orderId>>

(***************************************************************************)
(* Further properties of the market data type manager.                     *)
(***************************************************************************)
\* C29: _current_md_type is unset exactly when the manager has sent no
\* mode-switch request, otherwise it is the mode of the request sent last;
\* and a call that completes leaves it equal to the mode the call returns.
C29_CurrentIsLastRequested ==
    /\ [](current_md_type = NoMode <=> requests = <<>>)
    /\ [](requests # <<>> => current_md_type = requests[Len(requests)])
    /\ [][\A t \in Tasks : CompletesCall(t) => current_md_type' = task'[t].ret]_vars

C29_Witness ==
    /\ Len(requests) = 2
    /\ current_md_type = requests[2]
    /\ requests[1] # requests[2]
    /\ \E t \in Tasks : task[t].pc = "done" /\ task[t].ret = requests[1]
    /\ \E t \in Tasks : task[t].pc = "done" /\ task[t].ret = requests[2]

\* The schedule _get_schedule hands to the call that finishes in this step
ReturnedSchedule(t) == IF task'[t].hit THEN cache ELSE cache'

\* The schedule parsed from the call's own instrument, day and preference
OwnSchedule(t) == BuildSchedule(Details(task[t].contract), clock)

\* C30: however calls for different instruments or days interleave, the
\* schedule a call gets is the one parsed from its own instrument, day and
\* hours preference, and the cached key and the cached schedule are set
\* together or both unset.
C30_ReturnsOwnSchedule ==
    /\ []((cache_key = NoKey) <=> (cache = NoSchedule))
    /\ [][\A t \in Tasks : Finishing(t) => ReturnedSchedule(t) = OwnSchedule(t)]_vars

\* The same for calls whose contract the venue has resolved
C30_ResolvedReturnsOwnSchedule ==
    /\ []((cache_key = NoKey) <=> (cache = NoSchedule))
    /\ [][\A t \in Tasks :
             (Finishing(t) /\ conId[task[t].contract] # 0) =>
                 ReturnedSchedule(t) = OwnSchedule(t)]_vars

====
